---- MODULE Spec2Model ----
(***************************************************************************)
(* A model of cfo/utils.py: the client of the CFO catalog REST API.        *)
(*                                                                         *)
(* The API object is modelled as a sequential interpreter of its methods:  *)
(* a call stack of frames (one frame per running method, decorator wrapper *)
(* or retry loop), the session's header map, the token file on disk, and   *)
(* the value or exception handed from a callee to its caller.  The server, *)
(* the network and the file system's permissions are the environment:     *)
(* every HTTP attempt either raises or answers with one of a small set of  *)
(* responses, every access to the token file is either allowed or denied.  *)
(*                                                                         *)
(* Python strings are sequences of one-character strings, so that          *)
(* prefixes, slices, pattern matches and replacements are computed.        *)
(***************************************************************************)
EXTENDS Integers, Sequences, FiniteSets, TLC

(***************************************************************************)
(* Bounds of the model                                                     *)
(***************************************************************************)
\* network exceptions the environment may raise during one top-level call
MaxRaises == 1

(***************************************************************************)
(* Strings                                                                 *)
(***************************************************************************)
Whitespace == {" ", "\n", "\t"}

StartsWith(s, p) == Len(s) >= Len(p) /\ SubSeq(s, 1, Len(p)) = p

\* s[n:] of Python, n >= 0
DropFirst(s, n) == SubSeq(s, n + 1, Len(s))

\* str.replace(old, new) for a one-character old
Replace(s, old, new) == [i \in 1..Len(s) |-> IF s[i] = old THEN new ELSE s[i]]

RECURSIVE Join(_, _)
\* sep.join(parts)
Join(parts, sep) ==
    IF Len(parts) = 0 THEN <<>>
    ELSE IF Len(parts) = 1 THEN parts[1]
    ELSE parts[1] \o sep \o Join(Tail(parts), sep)

RECURSIVE Split(_, _)
\* s.split(sep) for a one-character sep: the list of the fields between seps
Split(s, sep) ==
    IF \A i \in 1..Len(s) : s[i] # sep THEN <<s>>
    ELSE LET k == CHOOSE i \in 1..Len(s) :
                      s[i] = sep /\ \A j \in 1..(i - 1) : s[j] # sep
         IN  <<SubSeq(s, 1, k - 1)>> \o Split(DropFirst(s, k), sep)

Digit == [d \in 0..9 |-> CASE d = 0 -> "0" [] d = 1 -> "1" [] d = 2 -> "2"
                           [] d = 3 -> "3" [] d = 4 -> "4" [] d = 5 -> "5"
                           [] d = 6 -> "6" [] d = 7 -> "7" [] d = 8 -> "8"
                           [] d = 9 -> "9"]

RECURSIVE Decimal(_)
\* str(n) for n >= 0
Decimal(n) == IF n < 10 THEN <<Digit[n]>>
              ELSE Decimal(n \div 10) \o <<Digit[n % 10]>>

RECURSIVE Zeros(_)
Zeros(k) == IF k <= 0 THEN <<>> ELSE <<"0">> \o Zeros(k - 1)

\* f"{n:0{width}d}": the sign, then zeros up to the width, then the digits;
\* a number wider than the width is not cut
FormatZeroPad(n, width) ==
    IF n >= 0
    THEN Zeros(width - Len(Decimal(n))) \o Decimal(n)
    ELSE <<"-">> \o Zeros(width - 1 - Len(Decimal(0 - n))) \o Decimal(0 - n)

(***************************************************************************)
(* construct_asset_id                                                      *)
(***************************************************************************)
\* an absent (None) argument
Absent == [t |-> "None"]
StrArg(s) == [s |-> s, t |-> "str"]
IntArg(n) == [n |-> n, t |-> "int"]

\* "if x is None: x = '*'" for the string fields
OrStar(field) == IF field.t = "None" THEN <<"*">> ELSE field.s

\* year = "*" if None else f"{year:04d}"
FormatYear(year) ==
    IF year.t = "None" THEN <<"*">> ELSE FormatZeroPad(year.n, 4)

\* resolution = "*" if None else f"{resolution:05d}m"
FormatResolution(resolution) ==
    IF resolution.t = "None" THEN <<"*">>
    ELSE FormatZeroPad(resolution.n, 5) \o <<"m">>

\* a loop over the finders that stops after the first one
ReplaceStarOnly(s) == Replace(s, "*", "%")

\* for finder in ["*", "?"]: asset_id = asset_id.replace(finder, "%")
ReplaceWildcards(s) == Replace(Replace(s, "*", "%"), "?", "%")

AssetFields(geography, category, metric, year, timeOfYear, resolution) ==
    << OrStar(geography), OrStar(category), OrStar(metric), FormatYear(year),
       OrStar(timeOfYear), FormatResolution(resolution) >>

construct_asset_id(geography, category, metric, year, timeOfYear, resolution) ==
    ReplaceWildcards(
        Join(AssetFields(geography, category, metric, year, timeOfYear,
                         resolution), <<"-">>))

(***************************************************************************)
(* The token file: read_token_file, write_token_file                       *)
(***************************************************************************)
\* The characters the model's tokens are made of, with their code points.
CodePoint(c) == CASE c = "a" -> 97 [] c = "b" -> 98 [] c = "1" -> 49
                  [] c = "2" -> 50 [] c = " " -> 32 [] c = "\n" -> 10
                  [] c = "\t" -> 9

CharOf(b) == CASE b = 97 -> "a" [] b = 98 -> "b" [] b = 49 -> "1"
               [] b = 50 -> "2" [] b = 32 -> " " [] b = 10 -> "\n"
               [] b = 9 -> "\t"

KnownBytes == {97, 98, 49, 50, 32, 10, 9}

\* token.encode("utf-8"): one byte per character of the (ASCII) alphabet
Utf8Encode(s) == [i \in 1..Len(s) |-> CodePoint(s[i])]

\* bytes.decode(): a byte that starts no character raises UnicodeDecodeError
Utf8Decodable(b) == \A i \in 1..Len(b) : b[i] \in KnownBytes
Utf8Decode(b) == [i \in 1..Len(b) |-> CharOf(b[i])]

\* A gzip member: the magic number, the payload, the payload's length.
GzipMagic == <<31, 139>>
Gzip(b) == GzipMagic \o b \o <<Len(b)>>

\* gzip reads an empty file as an empty stream; anything else must be a
\* well-formed member, or BadGzipFile (an OSError) / EOFError is raised
GunzipOk(f) ==
    \/ f = <<>>
    \/ /\ Len(f) >= 3
       /\ SubSeq(f, 1, 2) = GzipMagic
       /\ f[Len(f)] = Len(f) - 3
Gunzip(f) == IF f = <<>> THEN <<>> ELSE SubSeq(f, 3, Len(f) - 1)

\* the bytes write_token_file leaves in the file
\* a writer that leaves out the last character of the token
WriteTokenShort(token) ==
    Gzip(Utf8Encode(SubSeq(token, 1, Len(token) - 1)))

write_token_file(token) == Gzip(Utf8Encode(token))

\* what read_token_file does with the bytes of the file:
\* the token, or the exception it raises
read_token_file(bytes) ==
    IF ~GunzipOk(bytes) THEN [ok |-> FALSE, exc |-> "BadGzipFile"]
    ELSE IF ~Utf8Decodable(Gunzip(bytes))
         THEN [ok |-> FALSE, exc |-> "UnicodeDecodeError"]
         ELSE [token |-> Utf8Decode(Gunzip(bytes)), ok |-> TRUE]

(***************************************************************************)
(* The Authorization header                                                *)
(***************************************************************************)
Bearer == <<"B", "e", "a", "r", "e", "r", " ">>

\* f"Bearer {token}"
BearerHeader(token) == Bearer \o token

NonSpace(s) == Len(s) >= 1 /\ \A i \in 1..Len(s) : s[i] \notin Whitespace

\* re.match(r"^Bearer (\S+)$", value): "$" also matches before a final newline
MatchesBearer(value) ==
    /\ StartsWith(value, Bearer)
    /\ LET rest == DropFirst(value, Len(Bearer))
       IN  \/ NonSpace(rest)
           \/ /\ Len(rest) >= 2
              /\ rest[Len(rest)] = "\n"
              /\ NonSpace(SubSeq(rest, 1, Len(rest) - 1))

(***************************************************************************)
(* Python values                                                           *)
(***************************************************************************)
NoneV == [t |-> "None"]
IntV(n) == [n |-> n, t |-> "int"]
StrV(s) == [s |-> s, t |-> "str"]
DictV(d) == [d |-> d, t |-> "dict"]
ListV(l) == [t |-> "list", l |-> l]
\* the (token, status_code) tuple of _auth_request
PairV(token, status) == [t |-> "pair", token |-> token, status |-> status]
\* a requests.Response: the status code, the kind of body, the body's datum
Resp(status, body, data) ==
    [t |-> "resp", status |-> status, body |-> body, data |-> data]
\* response.content of a failed request, the msg of check()
ContentV(status) == [t |-> "content", status |-> status]

EmptyDict == <<>>
\* d[key] = value
DictSet(d, key, value) ==
    [k \in DOMAIN d \cup {key} |-> IF k = key THEN value ELSE d[k]]

(***************************************************************************)
(* The environment: the server's answers                                   *)
(***************************************************************************)
\* The tokens the server hands out: JWTs, non-empty and free of whitespace.
T1 == <<"a", "1">>
T2 == <<"b", "2">>
ServerTokens == {T1, T2}

\* Contents the token file may start with: tokens stored by an earlier run,
\* an empty or damaged file, and contents some other program left there.
InitialFiles ==
    { [bytes |-> <<>>, exists |-> FALSE],
      [bytes |-> write_token_file(T1), exists |-> TRUE],
      [bytes |-> <<>>, exists |-> TRUE],
      [bytes |-> <<7, 7, 7>>, exists |-> TRUE],
      [bytes |-> write_token_file(<<"a", " ", "b">>), exists |-> TRUE],
      [bytes |-> write_token_file(<<"a", "\n">>), exists |-> TRUE] }

ErrorStatuses == {401}

\* the "link" the server answers a fetch of a type with: a five-character
\* scheme followed by the name of what is linked
LinkOf(fetch_type) == <<"g", "s", ":", "/", "/", fetch_type>>

AssetIds == { <<"C", "A">> }

\* the datum of a well-formed 200 answer of each endpoint
OkData(ep, arg) ==
    CASE ep = "fetch"      -> {LinkOf(arg)}
      [] ep = "auth"       -> ServerTokens
      [] ep = "search"     -> {<<[asset_id |-> arg]>>}
      [] ep = "pixel_pick" -> {<<"4", "2">>}
      [] ep = "styles"     -> {<<"viridis">>}
      [] ep = "public_key" -> {<<"key">>}

\* every answer the server may give to a request of endpoint ep: a 200 with
\* the documented JSON body, a 200 whose body is not that JSON, an error
Responses(ep, arg) ==
    {Resp(200, "json", d) : d \in OkData(ep, arg)}
      \cup {Resp(200, "malformed", <<>>)}
      \cup {Resp(st, "error", <<>>) : st \in ErrorStatuses}

\* how the model's records name an answer
Outcome(r) == IF r.status = 200
              THEN (IF r.body = "json" THEN "200" ELSE "bad200")
              ELSE "error"

\* ... and what a method got from a request: an answer, or None
Answer(v) == IF v.t = "resp" THEN Outcome(v) ELSE "None"

(***************************************************************************)
(* State                                                                   *)
(***************************************************************************)
VARIABLES
    headers,     \* self._session.headers: a map; only Authorization matters
    tokenFile,   \* TMP_FILE: whether it exists, and its bytes
    stack,       \* the call stack, the running frame last
    ret,         \* what the frame that just ended hands to its caller
    call,        \* the top-level call in progress or just ended
    trace,       \* what the top-level call did so far, in order
    answers,     \* how each request of the top-level method itself was answered
    nRaised,     \* network exceptions raised during the top-level call
    lastLogin,   \* the token of the latest login answered with status 200,
                 \* and that of the latest one whose token file was written
    asset        \* the arguments and the result of construct_asset_id

vars == <<headers, tokenFile, stack, ret, call, trace, answers, nRaised,
          lastLogin, asset>>

Event(ev, ep, arg, out) == [ep |-> ep, arg |-> arg, ev |-> ev, out |-> out]

NoRet == [k |-> "none"]
Returned(v) == [k |-> "ret", v |-> v]
Raised(exc) == [k |-> "raise", exc |-> exc]

Top == stack[Len(stack)]
Below == SubSeq(stack, 1, Len(stack) - 1)
Running(fn, pc) == stack # <<>> /\ Top.fn = fn /\ Top.pc = pc
\* the running frame moves on
Goto(frame) == Below \o <<frame>>
\* the running frame calls another function and waits for it
CallFrom(frame, callee) == Below \o <<frame, callee>>

\* a test of the header that never finds it
NeverAuthorized == FALSE

HasAuthorization == "Authorization" \in DOMAIN headers
\* self._session.headers.update({"Authorization": value})
HeadersUpdate(value) == DictSet(headers, "Authorization", value)

\* An exception nobody catches ends the top-level call.  The only handlers of
\* the program are the retry loop, which wraps nothing but an HTTP request,
\* get_input, and "except PermissionError" in authenticate, which no call
\* made under it raises; so an exception raised elsewhere unwinds every frame.
Propagate(exc) == stack' = <<>> /\ ret' = Raised(exc)

\* no call is running and the caller holds no result of the object's
Idle == stack = <<>> /\ ret.k = "none"

\* a top-level call has ended: its value or exception is with the caller
Ended == stack = <<>> /\ ret.k # "none"

\* the caller takes what the call gave; the object is at rest until the
\* caller's next call
TakeResult ==
    /\ Ended
    /\ ret' = NoRet
    /\ call' = [op |-> "none"]
    /\ trace' = <<>>
    /\ answers' = <<>>
    /\ nRaised' = 0
    /\ UNCHANGED <<stack, headers, tokenFile, lastLogin, asset>>

\* a top-level call starts with its frames; what the last call did is dropped
Begin(c, frames) ==
    /\ Idle
    /\ call' = c
    /\ stack' = frames
    /\ ret' = NoRet
    /\ trace' = <<>>
    /\ answers' = <<>>
    /\ nRaised' = 0
    /\ UNCHANGED <<headers, tokenFile, lastLogin, asset>>

(***************************************************************************)
(* Frames                                                                  *)
(***************************************************************************)
\* auth_required's wrapper around the view _<view>_request.  Beside the
\* wrapper's own status it records, for the properties: whether the header
\* was missing when it was entered (noauth), the length of the trace then
\* (mark), and the length of the trace when it called the view (bodyAt, 0
\* as long as it has not)
GateFrame(view, arg) ==
    [status |-> NoneV, arg |-> arg, fn |-> "gate", pc |-> "start",
     view |-> view, noauth |-> FALSE, mark |-> 0, bodyAt |-> 0,
     rv |-> NoneV]

\* retrying's loop around the body of _<view>_request
RetryFrame(view, arg) ==
    [arg |-> arg, fn |-> "retry", pc |-> "attempt", view |-> view,
     rv |-> NoneV, attempt_number |-> 1, wait |-> 0, last |-> ""]

AuthenticateFrame(ignore_temp) ==
    [status |-> NoneV, fn |-> "authenticate", pc |-> "start", rv |-> NoneV,
     ignore_temp |-> ignore_temp, login |-> TRUE]

\* a frame that reached its return statement hands its value to its caller
Return ==
    /\ stack # <<>>
    /\ Top.pc = "done"
    /\ stack' = Below
    /\ ret' = Returned(Top.rv)
    /\ UNCHANGED <<headers, tokenFile, call, trace, answers, nRaised,
                   lastLogin, asset>>

(***************************************************************************)
(* auth_required                                                           *)
(***************************************************************************)
\* if "Authorization" not in self._session.headers:
\*     status = self.authenticate(ignore_temp=False)
GateStart ==
    /\ Running("gate", "start")
    /\ trace' = Append(trace, Event("guarded", Top.view, Top.arg, ""))
    /\ stack' =
         IF ~HasAuthorization
         THEN CallFrom([Top EXCEPT !.pc = "authed", !.noauth = TRUE,
                                   !.mark = Len(trace')],
                       AuthenticateFrame(FALSE))
         ELSE Goto([Top EXCEPT !.pc = "check", !.mark = Len(trace')])
    /\ UNCHANGED <<headers, tokenFile, ret, call, answers, nRaised,
                   lastLogin, asset>>

\* if status != 200: return None
StatusIs200(v) == v.t = "int" /\ v.n = 200

\* a wrapper that goes on whatever authenticate returned
GateAuthedAnyStatus ==
    /\ Running("gate", "authed")
    /\ ret.k = "ret"
    /\ stack' = Goto([Top EXCEPT !.pc = "check", !.status = ret.v])
    /\ ret' = NoRet
    /\ UNCHANGED <<headers, tokenFile, call, trace, answers, nRaised,
                   lastLogin, asset>>

GateAuthed ==
    /\ Running("gate", "authed")
    /\ ret.k = "ret"
    /\ stack' = IF StatusIs200(ret.v)
                THEN Goto([Top EXCEPT !.pc = "check", !.status = ret.v])
                ELSE Goto([Top EXCEPT !.pc = "done", !.status = ret.v,
                                      !.rv = NoneV])
    /\ ret' = NoRet
    /\ UNCHANGED <<headers, tokenFile, call, trace, answers, nRaised,
                   lastLogin, asset>>

\* the two tests of the header's shape, then "return view(*args, **kwargs)"
GateCheck ==
    /\ Running("gate", "check")
    /\ IF ~HasAuthorization
       THEN Propagate("KeyError")
       ELSE /\ ret' = ret
            /\ stack' =
                 IF ~StartsWith(headers["Authorization"], Bearer)
                 THEN Goto([Top EXCEPT !.pc = "done", !.rv = NoneV])
                 ELSE IF ~MatchesBearer(headers["Authorization"])
                 THEN Goto([Top EXCEPT !.pc = "done", !.rv = NoneV])
                 ELSE CallFrom([Top EXCEPT !.pc = "viewed",
                                           !.bodyAt = Len(trace)],
                               RetryFrame(Top.view, Top.arg))
    /\ UNCHANGED <<headers, tokenFile, call, trace, answers, nRaised,
                   lastLogin, asset>>

GateViewed ==
    /\ Running("gate", "viewed")
    /\ ret.k = "ret"
    /\ stack' = Goto([Top EXCEPT !.pc = "done", !.rv = ret.v])
    /\ ret' = NoRet
    /\ UNCHANGED <<headers, tokenFile, call, trace, answers, nRaised,
                   lastLogin, asset>>

(***************************************************************************)
(* @retry(wait_exponential_multiplier=1000, wait_exponential_max=10000)    *)
(***************************************************************************)
WaitMultiplier == 1000
WaitMax == 10000

RECURSIVE Pow2(_)
Pow2(n) == IF n <= 0 THEN 1 ELSE 2 * Pow2(n - 1)

\* retrying's exponential_sleep after the attempt of the given number
ExponentialSleep(previous_attempt_number) ==
    LET result == WaitMultiplier * Pow2(previous_attempt_number)
    IN  IF result > WaitMax THEN WaitMax
        ELSE IF result < 0 THEN 0 ELSE result

\* what the body of _<view>_request does with the server's answer r:
\* _auth_request reads the token out of a 200 (which raises if the body is
\* not the JSON it expects), the others return the response as it is
ViewBody(view, r) ==
    IF view = "auth"
    THEN IF r.status = 200
         THEN IF r.body = "json"
              THEN Returned(PairV(StrV(r.data), r.status))
              ELSE Raised("JSONDecodeError")
         ELSE Returned(PairV(NoneV, r.status))
    ELSE Returned(r)

\* a loop that stops at the first attempt that raises
RetryGiveUp(out) ==
    /\ nRaised < MaxRaises
    /\ nRaised' = nRaised + 1
    /\ Propagate("RetryError")

\* the attempt raises, and the loop sleeps and tries again
RetryAgain(out) ==
    /\ nRaised < MaxRaises
    /\ nRaised' = nRaised + 1
    /\ stack' = Goto([Top EXCEPT
                        !.attempt_number = @ + 1,
                        !.wait = ExponentialSleep(Top.attempt_number),
                        !.last = out])
    /\ ret' = ret

\* one attempt of a retry-wrapped request: the body of the view runs, and
\* sends its HTTP request; the trace names the request once, the frame
\* counts the attempts and keeps how the latest one ended
Attempt ==
    /\ Running("retry", "attempt")
    /\ trace' = IF Top.attempt_number = 1
                THEN Append(trace, Event("http", Top.view, Top.arg, ""))
                ELSE trace
    /\ \/ RetryAgain("raise")
       \/ \E r \in Responses(Top.view, Top.arg) :
            LET result == ViewBody(Top.view, r)
            IN  IF result.k = "raise"
                THEN RetryAgain(Outcome(r))
                ELSE /\ stack' = Goto([Top EXCEPT !.pc = "done",
                                                  !.last = Outcome(r),
                                                  !.rv = result.v])
                     /\ UNCHANGED <<nRaised, ret>>
    /\ UNCHANGED <<headers, tokenFile, call, answers, lastLogin, asset>>

(***************************************************************************)
(* API.authenticate                                                        *)
(***************************************************************************)
\* "if not ignore_temp: if os.path.exists(TMP_FILE):" holds: the token is
\* read; a PermissionError is caught and leads to the login
AuthenticateLoadToken ==
    /\ Running("authenticate", "start")
    /\ ~Top.ignore_temp
    /\ tokenFile.exists
    /\ \E allowed \in BOOLEAN :
         LET r == read_token_file(tokenFile.bytes)
             entry == Event("authenticate", "", "", "use_temp")
         IN  IF ~allowed
             THEN /\ trace' = trace \o <<entry, Event("read_token_file", "",
                                                       "", "PermissionError")>>
                  /\ stack' = Goto([Top EXCEPT !.pc = "login"])
                  /\ UNCHANGED <<headers, ret>>
             ELSE IF ~r.ok
             THEN /\ trace' = trace \o <<entry, Event("read_token_file", "",
                                                       "", r.exc)>>
                  /\ Propagate(r.exc)
                  /\ UNCHANGED headers
             ELSE /\ trace' = trace \o <<entry, Event("read_token_file", "",
                                                       "", "ok")>>
                  /\ headers' = HeadersUpdate(BearerHeader(r.token))
                  /\ stack' = CallFrom([Top EXCEPT !.pc = "key",
                                                   !.login = FALSE,
                                                   !.status = IntV(200)],
                                       GateFrame("public_key", <<>>))
                  /\ ret' = ret
    /\ UNCHANGED <<tokenFile, call, answers, nRaised, lastLogin, asset>>

\* ignore_temp is set, or there is no token file: login stays True
AuthenticateNoToken ==
    /\ Running("authenticate", "start")
    /\ Top.ignore_temp \/ ~tokenFile.exists
    /\ trace' = Append(trace, Event("authenticate", "", "",
                         IF Top.ignore_temp THEN "ignore_temp" ELSE "use_temp"))
    /\ stack' = Goto([Top EXCEPT !.pc = "login"])
    /\ UNCHANGED <<headers, tokenFile, ret, call, answers, nRaised,
                   lastLogin, asset>>

\* email, password = get_email_pass()
\* token, status = self._auth_request(email, password)
AuthenticateLogin ==
    /\ Running("authenticate", "login")
    /\ trace' = Append(trace, Event("get_email_pass", "", "", ""))
    /\ stack' = CallFrom([Top EXCEPT !.pc = "logged"], RetryFrame("auth", <<>>))
    /\ UNCHANGED <<headers, tokenFile, ret, call, answers, nRaised,
                   lastLogin, asset>>

\* if status == 200: set the header, write the token file (a PermissionError
\* is passed over), ask for the public key; else: return the status
AuthenticateLogged ==
    /\ Running("authenticate", "logged")
    /\ ret.k = "ret"
    /\ ret' = NoRet
    /\ IF ret.v.status = 200
       THEN /\ headers' = HeadersUpdate(BearerHeader(ret.v.token.s))
            /\ \E allowed \in BOOLEAN :
                 /\ lastLogin' =
                      [token |-> <<ret.v.token.s>>,
                       written |-> IF allowed THEN <<ret.v.token.s>>
                                   ELSE lastLogin.written]
                 /\ tokenFile' =
                      IF allowed
                      THEN [bytes |-> write_token_file(ret.v.token.s),
                            exists |-> TRUE]
                      ELSE tokenFile
                 /\ trace' = Append(trace, Event("write_token_file", "", "",
                               IF allowed THEN "ok" ELSE "PermissionError"))
            /\ stack' = CallFrom([Top EXCEPT !.pc = "key",
                                             !.status = IntV(ret.v.status)],
                                 GateFrame("public_key", <<>>))
       ELSE /\ stack' = Goto([Top EXCEPT !.pc = "done",
                                         !.status = IntV(ret.v.status),
                                         !.rv = IntV(ret.v.status)])
            /\ UNCHANGED <<headers, tokenFile, trace, lastLogin>>
    /\ UNCHANGED <<call, answers, nRaised, asset>>

\* response = self._public_key_request()
\* if response.status_code == 200: write_public_key(TMP_KEY, response.json())
\* ... return status
AuthenticateKey ==
    /\ Running("authenticate", "key")
    /\ ret.k = "ret"
    /\ IF ret.v.t # "resp"
       THEN Propagate("AttributeError")
       ELSE IF ret.v.status = 200 /\ ret.v.body # "json"
       THEN Propagate("JSONDecodeError")
       ELSE /\ stack' = Goto([Top EXCEPT !.pc = "done", !.rv = Top.status])
            /\ ret' = NoRet
    /\ UNCHANGED <<headers, tokenFile, call, trace, answers, nRaised, lastLogin, asset>>

(***************************************************************************)
(* check, API.search, API.list_styles, API.pixel_pick                      *)
(***************************************************************************)
\* check(response): [success, msg]; it reads response.status_code first, so
\* a None in place of a response raises AttributeError
CheckRaises(response) == response.t # "resp"
CheckSuccess(response) == response.status = 200
CheckMsg(response) == IF response.status = 200 THEN StrV(<<"slugs rule">>)
                      ELSE ContentV(response.status)

\* the running frame ends with the value v
Finish(v) == stack' = Below /\ ret' = Returned(v)

\* response.json()[key] of a body: the datum, if the body is that JSON
JsonRaises(response) == response.body # "json"
JsonError(response) ==
    IF response.body = "malformed" THEN "JSONDecodeError" ELSE "KeyError"

SearchFrame(asset_id, raw, just_assets) ==
    [asset_id |-> asset_id, fn |-> "search", pc |-> "sent", raw |-> raw,
     just_assets |-> just_assets]

\* [feature["asset_id"] for feature in features]
FeatureIds(features) == [i \in 1..Len(features) |-> features[i].asset_id]

\* search, after response = self._search_request(...)
SearchSent ==
    /\ Running("search", "sent")
    /\ ret.k = "ret"
    /\ IF CheckRaises(ret.v) THEN Propagate("AttributeError")
       ELSE IF ~CheckSuccess(ret.v) THEN Finish(CheckMsg(ret.v))
       ELSE IF Top.raw THEN Finish(ret.v)
       ELSE IF JsonRaises(ret.v) THEN Propagate(JsonError(ret.v))
       ELSE IF Top.just_assets THEN Finish(ListV(FeatureIds(ret.v.data)))
       ELSE Finish(ListV(ret.v.data))
    /\ answers' = Append(answers, Answer(ret.v))
    /\ UNCHANGED <<headers, tokenFile, call, trace, nRaised, lastLogin,
                   asset>>

\* search(geography=...): the asset id is constructed from the fields
CallSearch ==
    \E raw \in BOOLEAN, just_assets \in BOOLEAN :
        LET asset_id == construct_asset_id(StrArg(<<"C", "A">>), Absent,
                                           Absent, Absent, Absent, Absent)
        IN  Begin([op |-> "search", raw |-> raw, just_assets |-> just_assets],
                  << SearchFrame(asset_id, raw, just_assets),
                     GateFrame("search", asset_id) >>)

StylesFrame == [fn |-> "list_styles", pc |-> "sent"]

\* list_styles, after response = self._styles_request(); the bare "raise"
\* of the failure branch has no exception to raise again: RuntimeError
StylesSent ==
    /\ Running("list_styles", "sent")
    /\ ret.k = "ret"
    /\ IF CheckRaises(ret.v) THEN Propagate("AttributeError")
       ELSE IF ~CheckSuccess(ret.v) THEN Propagate("RuntimeError")
       ELSE IF JsonRaises(ret.v) THEN Propagate(JsonError(ret.v))
       ELSE Finish(ListV(ret.v.data))
    /\ answers' = Append(answers, Answer(ret.v))
    /\ UNCHANGED <<headers, tokenFile, call, trace, nRaised, lastLogin,
                   asset>>

CallListStyles ==
    Begin([op |-> "list_styles"], <<StylesFrame, RetryFrame("styles", <<>>)>>)

\* a validation that turns the boundary values down
ValidateInside(lon, lat) ==
    lon > -180 /\ lon < 180 /\ lat > -90 /\ lat < 90

validate_geography(lon, lat) ==
    LET lon_valid == lon >= -180 /\ lon <= 180
        lat_valid == lat >= -90 /\ lat <= 90
    IN  lon_valid /\ lat_valid

Lons == {-181, -180, 180, 181}
Lats == {-91, -90, 90, 91}

PixelPickFrame(asset_id, lon, lat) ==
    [asset_id |-> asset_id, fn |-> "pixel_pick", pc |-> "searched",
     lon |-> lon, lat |-> lat, success |-> FALSE]

\* pixel_pick: invalid coordinates return None at once; valid ones go on to
\* the search that verifies the asset id
CallPixelPick ==
    \E asset_id \in AssetIds, lon \in Lons, lat \in Lats :
        /\ Idle
        /\ call' = [op |-> "pixel_pick", lon |-> lon, lat |-> lat]
        /\ trace' = <<>>
        /\ answers' = <<>>
        /\ nRaised' = 0
        /\ IF ~validate_geography(lon, lat)
           THEN stack' = <<>> /\ ret' = Returned(NoneV)
           ELSE /\ stack' = << PixelPickFrame(asset_id, lon, lat),
                               GateFrame("search", asset_id) >>
                /\ ret' = NoRet
        /\ UNCHANGED <<headers, tokenFile, lastLogin, asset>>

\* pixel_pick, after response = self._search_request(asset_id=asset_id)
PixelPickSearched ==
    /\ Running("pixel_pick", "searched")
    /\ ret.k = "ret"
    /\ IF CheckRaises(ret.v) THEN Propagate("AttributeError")
       ELSE IF ~CheckSuccess(ret.v) THEN Finish(NoneV)
       ELSE /\ stack' = Goto([Top EXCEPT !.pc = "pick", !.success = TRUE])
            /\ ret' = NoRet
    /\ answers' = Append(answers, Answer(ret.v))
    /\ UNCHANGED <<headers, tokenFile, call, trace, nRaised, lastLogin,
                   asset>>

\* response = self._pixel_pick_request(asset_id, lon, lat): one request, in
\* no retry loop and behind no gate; then "if not success" tests the success
\* of the search again, so the else branch reads response.json()["val"]
PixelPickRequest ==
    /\ Running("pixel_pick", "pick")
    /\ \/ /\ nRaised < MaxRaises
          /\ nRaised' = nRaised + 1
          /\ trace' = Append(trace, Event("http", "pixel_pick",
                                          Top.asset_id, "raise"))
          /\ Propagate("ConnectionError")
       \/ \E r \in Responses("pixel_pick", Top.asset_id) :
            /\ trace' = Append(trace, Event("http", "pixel_pick",
                                            Top.asset_id, Outcome(r)))
            /\ nRaised' = nRaised
            /\ IF ~Top.success THEN Finish(NoneV)
               ELSE IF JsonRaises(r) THEN Propagate(JsonError(r))
               ELSE Finish(StrV(r.data))
    /\ UNCHANGED <<headers, tokenFile, call, answers, lastLogin, asset>>

(***************************************************************************)
(* API.fetch, API.download                                                 *)
(***************************************************************************)
list_fetch_types == <<"wms", "signed_url", "uri", "url", "wms_preview">>

Elements(l) == {l[i] : i \in 1..Len(l)}

\* the boolean parameters in the order fetch tests them, with the type each
\* one asks the server for
FlagNames == <<"dl", "wms", "gdal", "bucket">>
FlagType == <<"signed_url", "wms", "uri", "uri">>

Vsigs == <<"/", "v", "s", "i", "g", "s", "/">>

\* what fetch stores for the parameter of a flag: the link, or for gdal
\* f"/vsigs/{uri[5:]}"
FlagValue(param, link) ==
    IF param = "gdal" THEN Vsigs \o DropFirst(link, 5) ELSE link

\* supported.intersection(set(fetch_types)) != supported
UnsupportedTypes(fetch_types) ==
    LET supported == Elements(list_fetch_types)
    IN  (supported \cap Elements(fetch_types)) # supported

FetchFrame(asset_id, flags, fetch_types) ==
    [i |-> 0, asset_id |-> asset_id, fn |-> "fetch", pc |-> "sent",
     fetch_types |-> fetch_types, flags |-> flags, responses |-> EmptyDict,
     params |-> <<>>, n_params |-> 0, stage |-> 0]

\* "if True not in [dl, wms, bucket, gdal] and len(fetch_types) == 0: dl = True"
DefaultFlags(flags, fetch_types) ==
    IF (\A k \in 1..4 : ~flags[k]) /\ Len(fetch_types) = 0
    THEN [flags EXCEPT ![1] = TRUE]
    ELSE flags

\* a fetch that returns the dictionary whatever the number of parameters
FetchResultDict(f) == Returned(DictV(f.responses))

\* if n_params == 1: return responses[params[0]]  else: return responses
FetchResult(f) ==
    IF f.n_params = 1
    THEN IF Len(f.params) = 0 THEN Raised("IndexError")
         ELSE Returned(StrV(f.responses[f.params[1]]))
    ELSE Returned(DictV(f.responses))

\* fetch runs on from frame f, which has handled f.stage of the flags and
\* f.i of the fetch_types, up to its next request or its end; base is the
\* stack under the frame
FetchAdvance(base, f) ==
    LET later == {k \in (f.stage + 1)..4 : f.flags[k]}
        k == CHOOSE x \in later : \A y \in later : x <= y
        n == Len(f.fetch_types)
    IN  IF later # {}
        THEN /\ stack' = base \o << [f EXCEPT !.stage = k],
                                    GateFrame("fetch", FlagType[k]) >>
             /\ ret' = NoRet
        ELSE IF n # 0 /\ f.i = 0 /\ UnsupportedTypes(f.fetch_types)
        THEN stack' = base /\ ret' = Returned(NoneV)
        ELSE IF f.i < n
        THEN /\ stack' = base \o << [f EXCEPT !.stage = 4, !.i = f.i + 1],
                                    GateFrame("fetch", f.fetch_types[f.i + 1]) >>
             /\ ret' = NoRet
        ELSE IF FetchResult(f).k = "raise"
        THEN Propagate(FetchResult(f).exc)
        ELSE stack' = base /\ ret' = FetchResult(f)

\* the frame after a successful answer: the link is stored under the flag's
\* name (and the name appended to params) or under the fetch type
FetchStore(f, link) ==
    IF f.i = 0
    THEN LET param == FlagNames[f.stage]
         IN  [f EXCEPT !.responses = DictSet(@, param, FlagValue(param, link)),
                       !.params = Append(@, param),
                       !.n_params = @ + 1]
    ELSE [f EXCEPT !.responses = DictSet(@, f.fetch_types[f.i], link),
                   !.n_params = @ + 1]

\* fetch, after response = self._fetch_request(asset_id, fetch_type)
FetchSent ==
    /\ Running("fetch", "sent")
    /\ ret.k = "ret"
    /\ IF CheckRaises(ret.v) THEN Propagate("AttributeError")
       ELSE IF ~CheckSuccess(ret.v) THEN Propagate("RuntimeError")
       ELSE IF JsonRaises(ret.v) THEN Propagate(JsonError(ret.v))
       ELSE FetchAdvance(Below, FetchStore(Top, ret.v.data))
    /\ answers' = Append(answers, Answer(ret.v))
    /\ UNCHANGED <<headers, tokenFile, call, trace, nRaised, lastLogin,
                   asset>>

SupportedLists ==
    { <<"wms">>, <<"uri">>, <<"wms", "uri">>, <<"url", "url">>,
      list_fetch_types }

UnknownLists ==
    { <<"kml">>, <<"wms", "kml">>, Append(list_fetch_types, "kml") }

AllFlags == [1..4 -> BOOLEAN]
NoFlags == [k \in 1..4 |-> FALSE]

\* the arguments fetch is called with
FetchInputs ==
    [fetch_types : {<<>>, <<"kml">>}, flags : AllFlags]
      \cup [fetch_types : SupportedLists \cup UnknownLists,
            flags : {NoFlags, [NoFlags EXCEPT ![2] = TRUE]}]

CallFetch ==
    \E asset_id \in AssetIds, in \in FetchInputs :
        /\ Idle
        /\ call' = [op |-> "fetch", fetch_types |-> in.fetch_types,
                    flags |-> in.flags]
        /\ trace' = <<>>
        /\ answers' = <<>>
        /\ nRaised' = 0
        /\ FetchAdvance(<<>>, FetchFrame(asset_id,
                                DefaultFlags(in.flags, in.fetch_types),
                                in.fetch_types))
        /\ UNCHANGED <<headers, tokenFile, lastLogin, asset>>

DownloadFrame(asset_id) ==
    [asset_id |-> asset_id, fn |-> "download", pc |-> "fetched"]

\* download: url = self.fetch(asset_id, dl=True)
CallDownload ==
    \E asset_id \in AssetIds :
        /\ Idle
        /\ call' = [op |-> "download"]
        /\ trace' = <<>>
        /\ answers' = <<>>
        /\ nRaised' = 0
        /\ FetchAdvance(<<DownloadFrame(asset_id)>>,
                        FetchFrame(asset_id, [NoFlags EXCEPT ![1] = TRUE], <<>>))
        /\ UNCHANGED <<headers, tokenFile, lastLogin, asset>>

\* download, after fetch: r = requests.get(url, stream=True), outside the
\* session; if r.ok the body is written to the file; nothing is returned
DownloadFetched ==
    /\ Running("download", "fetched")
    /\ ret.k = "ret"
    /\ \/ /\ nRaised < MaxRaises
          /\ nRaised' = nRaised + 1
          /\ trace' = Append(trace, Event("http", "download", ret.v.s, "raise"))
          /\ Propagate("ConnectionError")
       \/ \E ok \in BOOLEAN :
            /\ trace' = Append(trace, Event("http", "download", ret.v.s,
                                            IF ok THEN "200" ELSE "error"))
            /\ nRaised' = nRaised
            /\ Finish(NoneV)
    /\ UNCHANGED <<headers, tokenFile, call, answers, lastLogin, asset>>

(***************************************************************************)
(* API.list_geography_types, API.list_geographies                          *)
(***************************************************************************)
\* PATHS["geography"], loaded from data/paths.json: a dictionary from each
\* geography type to the list of its geographies.  Two types stand for it.
GeographyTypes == {"state", "county"}
GeographyPaths ==
    [g \in GeographyTypes |->
        IF g = "state" THEN <<"California">> ELSE <<"Marin", "Napa">>]

\* Python's builtin type, which list_geographies tests in place of by
BuiltinType == [t |-> "type"]

\* "x is None"
IsNone(x) == x = NoneV

\* if type is None: return PATHS["geography"]
\* else: try: return PATHS["geography"][by]  except KeyError: return None
list_geographies(by) ==
    IF IsNone(BuiltinType) THEN DictV(GeographyPaths)
    ELSE IF by # NoneV /\ by.s \in DOMAIN GeographyPaths
    THEN ListV(GeographyPaths[by.s])
    ELSE NoneV

\* the arguments list_geographies is called with: none, a known type, an
\* unknown one
ByInputs == {NoneV, StrV("state"), StrV("county"), StrV("planet")}

\* list_geographies sends nothing and returns in the step of its call
CallListGeographies ==
    \E by \in ByInputs :
        /\ Idle
        /\ call' = [op |-> "list_geographies", by |-> by]
        /\ stack' = <<>>
        /\ ret' = Returned(list_geographies(by))
        /\ trace' = <<>>
        /\ answers' = <<>>
        /\ nRaised' = 0
        /\ UNCHANGED <<headers, tokenFile, lastLogin, asset>>

(***************************************************************************)
(* Top-level calls                                                         *)
(***************************************************************************)
CallAuthenticate ==
    \E ignore_temp \in BOOLEAN :
        Begin([op |-> "authenticate", ignore_temp |-> ignore_temp],
              <<AuthenticateFrame(ignore_temp)>>)

\* a guarded request called by itself
CallRequest ==
    \E view \in {"search", "fetch", "public_key"} :
        LET arg == CASE view = "search" -> CHOOSE a \in AssetIds : TRUE
                     [] view = "fetch" -> "wms"
                     [] view = "public_key" -> <<>>
        IN  Begin([op |-> "request", view |-> view], <<GateFrame(view, arg)>>)

NoAsset == [state |-> "none"]
NoLogin == [token |-> <<>>, written |-> <<>>]

Init ==
    /\ headers = EmptyDict
    /\ tokenFile \in InitialFiles
    /\ stack = <<>>
    /\ ret = NoRet
    /\ call = [op |-> "none"]
    /\ trace = <<>>
    /\ answers = <<>>
    /\ nRaised = 0
    /\ lastLogin = NoLogin
    /\ asset = NoAsset

Next ==
    \/ TakeResult
    \/ CallAuthenticate
    \/ CallRequest
    \/ CallSearch
    \/ CallListStyles
    \/ CallListGeographies
    \/ CallPixelPick
    \/ CallFetch
    \/ CallDownload
    \/ FetchSent
    \/ DownloadFetched
    \/ SearchSent
    \/ StylesSent
    \/ PixelPickSearched
    \/ PixelPickRequest
    \/ Return
    \/ GateStart
    \/ GateAuthed
    \/ GateCheck
    \/ GateViewed
    \/ Attempt
    \/ AuthenticateLoadToken
    \/ AuthenticateNoToken
    \/ AuthenticateLogin
    \/ AuthenticateLogged
    \/ AuthenticateKey

Spec == Init /\ [][Next]_vars

(***************************************************************************)
(* construct_asset_id, called by itself                                    *)
(***************************************************************************)
Geographies == {Absent, StrArg(<<"C", "A">>), StrArg(<<"a", "-", "b">>),
                StrArg(<<"x", "*">>), StrArg(<<"y", "?", "z">>)}
Categories == {Absent, StrArg(<<"V", "e", "g">>), StrArg(<<"*", "p">>)}
Metrics == {Absent, StrArg(<<"M">>), StrArg(<<"?">>)}
TimesOfYear == {Absent, StrArg(<<"F", "a", "l", "l">>),
                StrArg(<<"0", "8", "-", "2", "5">>)}
Years == {Absent} \cup {IntArg(n) : n \in {0, 7, 2020, 12345, -5}}
Resolutions == {Absent} \cup {IntArg(n) : n \in {0, 10, 99999, 123456}}

AssetInputs ==
    [year : Years, resolution : Resolutions, geography : Geographies,
     category : Categories, metric : Metrics, timeOfYear : TimesOfYear]

\* a caller passes its arguments ...
AssetCall ==
    /\ asset.state = "none"
    /\ \E in \in AssetInputs : asset' = [in |-> in, state |-> "called"]
    /\ UNCHANGED <<headers, tokenFile, stack, ret, call, trace, answers,
                   nRaised, lastLogin>>

\* ... and construct_asset_id returns the asset id
AssetReturn ==
    /\ asset.state = "called"
    /\ asset' = [asset_id |-> construct_asset_id(
                     asset.in.geography, asset.in.category, asset.in.metric,
                     asset.in.year, asset.in.timeOfYear, asset.in.resolution),
                 in |-> asset.in, state |-> "returned"]
    /\ UNCHANGED <<headers, tokenFile, stack, ret, call, trace, answers,
                   nRaised, lastLogin>>

InitAsset ==
    /\ headers = EmptyDict
    /\ tokenFile = [bytes |-> <<>>, exists |-> FALSE]
    /\ stack = <<>>
    /\ ret = NoRet
    /\ call = [op |-> "none"]
    /\ trace = <<>>
    /\ answers = <<>>
    /\ nRaised = 0
    /\ lastLogin = NoLogin
    /\ asset = NoAsset

NextAsset == AssetCall \/ AssetReturn

AssetSpec == InitAsset /\ [][NextAsset]_vars

(***************************************************************************)
(* Properties of construct_asset_id                                        *)
(***************************************************************************)
DigitChars == {Digit[d] : d \in 0..9}
IsDigits(s) == Len(s) >= 1 /\ \A i \in 1..Len(s) : s[i] \in DigitChars
DigitValue(c) == CHOOSE d \in 0..9 : Digit[d] = c

RECURSIVE DecimalValue(_)
DecimalValue(s) ==
    IF s = <<>> THEN 0
    ELSE 10 * DecimalValue(SubSeq(s, 1, Len(s) - 1)) + DigitValue(s[Len(s)])

\* s is the decimal of n >= 0 padded with zeros to at least width digits
IsPadded(s, n, width) ==
    /\ IsDigits(s)
    /\ DecimalValue(s) = n
    /\ Len(s) >= width
    /\ Len(s) > width => s[1] # "0"

\* s is how a number argument appears in an asset id
IsNumberField(s, arg, width) ==
    IF arg.t = "None" THEN s = <<"%">>
    ELSE IF arg.n >= 0 THEN IsPadded(s, arg.n, width)
    ELSE /\ Len(s) >= 1
         /\ s[1] = "-"
         /\ IsPadded(Tail(s), 0 - arg.n, width - 1)

\* a string argument as the claim has it: unchanged, "%" if absent
Unchanged(arg) == IF arg.t = "None" THEN <<"%">> ELSE arg.s

\* a string argument with its wildcards rewritten, "%" if absent
Rewritten(arg) ==
    IF arg.t = "None" THEN <<"%">>
    ELSE [i \in 1..Len(arg.s) |->
            IF arg.s[i] \in {"*", "?"} THEN "%" ELSE arg.s[i]]

HasHyphen(arg) == arg.t = "str" /\ \E i \in 1..Len(arg.s) : arg.s[i] = "-"
Negative(arg) == arg.t = "int" /\ arg.n < 0

\* the asset id is g-c-m-Y-t-Rm for the given string fields and some number
\* fields Y and R of the right shape
IsAssetId(id, g, c, m, t, in) ==
    LET head == g \o <<"-">> \o c \o <<"-">> \o m \o <<"-">>
        rest == DropFirst(id, Len(head))
    IN  /\ StartsWith(id, head)
        /\ \E ly \in 1..Len(rest), lr \in 1..Len(rest) :
             /\ Len(rest) = ly + 1 + Len(t) + 1 + lr
             /\ IsNumberField(SubSeq(rest, 1, ly), in.year, 4)
             /\ SubSeq(rest, ly + 1, ly + Len(t) + 2) = <<"-">> \o t \o <<"-">>
             /\ LET R == DropFirst(rest, ly + Len(t) + 2)
                IN  IF in.resolution.t = "None" THEN R = <<"%">>
                    ELSE /\ R[Len(R)] = "m"
                         /\ IsNumberField(SubSeq(R, 1, Len(R) - 1),
                                          in.resolution, 5)

AllAbsent == [year |-> Absent, resolution |-> Absent, geography |-> Absent,
              category |-> Absent, metric |-> Absent, timeOfYear |-> Absent]

AssetExamples ==
    /\ asset.in = AllAbsent
         => asset.asset_id = <<"%", "-", "%", "-", "%", "-", "%", "-", "%",
                               "-", "%">>
    /\ asset.in = [AllAbsent EXCEPT !.geography = StrArg(<<"C", "A">>),
                                    !.year = IntArg(2020),
                                    !.resolution = IntArg(10)]
         => asset.asset_id = <<"C", "A", "-", "%", "-", "%", "-", "2", "0",
                               "2", "0", "-", "%", "-", "0", "0", "0", "1",
                               "0", "m">>

\* C9 as stated: the asset id is always exactly six hyphen-separated fields,
\* absent fields "%", the year four digits, the resolution five digits and
\* "m", and present string fields unchanged
C9_SixFieldsUnchanged ==
    asset.state = "returned" =>
        LET in == asset.in
        IN  /\ Len(Split(asset.asset_id, "-")) = 6
            /\ IsAssetId(asset.asset_id, Unchanged(in.geography),
                         Unchanged(in.category), Unchanged(in.metric),
                         Unchanged(in.timeOfYear), in)
            /\ in.year.t = "int" => Len(Split(asset.asset_id, "-")[4]) = 4
            /\ AssetExamples

\* C9, amended: the asset id is the hyphen-join, in the order geography,
\* category, metric, year, timeOfYear, resolution, of six fields: an absent
\* field is "%", a present year is its decimal zero-padded to at least four
\* digits, a present resolution its decimal zero-padded to at least five
\* digits and "m", and a present string field is the string with each "*"
\* and "?" replaced by "%"; splitting at "-" gives back exactly six fields
\* when no present string field holds a "-" and no number is negative
C9_AssetId ==
    asset.state = "returned" =>
        LET in == asset.in
        IN  /\ IsAssetId(asset.asset_id, Rewritten(in.geography),
                         Rewritten(in.category), Rewritten(in.metric),
                         Rewritten(in.timeOfYear), in)
            /\ (/\ ~HasHyphen(in.geography) /\ ~HasHyphen(in.category)
                /\ ~HasHyphen(in.metric) /\ ~HasHyphen(in.timeOfYear)
                /\ ~Negative(in.year) /\ ~Negative(in.resolution))
                 => LET f == Split(asset.asset_id, "-")
                    IN  /\ Len(f) = 6
                        /\ f[1] = Rewritten(in.geography)
                        /\ f[2] = Rewritten(in.category)
                        /\ f[3] = Rewritten(in.metric)
                        /\ f[5] = Rewritten(in.timeOfYear)
                        /\ in.year.t = "int" /\ in.year.n <= 9999
                             => Len(f[4]) = 4
                        /\ in.resolution.t = "int" /\ in.resolution.n <= 99999
                             => Len(f[6]) = 6
            /\ AssetExamples

\* an asset id built from a geography with a wildcard, a year and a
\* resolution
C9_Witness ==
    /\ asset.state = "returned"
    /\ asset.in.geography = StrArg(<<"y", "?", "z">>)
    /\ asset.in.year = IntArg(7)
    /\ asset.in.resolution = IntArg(10)
    /\ asset.in.timeOfYear = Absent
    /\ StartsWith(asset.asset_id, <<"y", "%", "z", "-">>)

(***************************************************************************)
(* Properties of the auth gate                                             *)
(***************************************************************************)
\* the positions of the trace, after position from, of the events ev
Positions(ev, from) ==
    {i \in (from + 1)..Len(trace) : trace[i].ev = ev}

GateFrames == {i \in 1..Len(stack) : stack[i].fn = "gate"}

\* authenticate has returned to the wrapper
GateHasStatus(g) == g.status.t = "int"

\* C1: a guarded request called without an Authorization header calls
\* authenticate exactly once, and before the body of the request runs; if
\* authenticate returns a status other than 200 the body never runs and the
\* guarded call returns None
C1_AuthGate ==
    \A i \in GateFrames :
        LET g == stack[i]
            auths == Positions("authenticate", g.mark)
        IN  g.noauth =>
              /\ Cardinality(auths) <= 1
              /\ GateHasStatus(g) => Cardinality(auths) = 1
              /\ g.bodyAt > 0 =>
                   /\ GateHasStatus(g) /\ g.status.n = 200
                   /\ \A a \in auths : a <= g.bodyAt
              /\ (GateHasStatus(g) /\ g.status.n # 200) =>
                   /\ g.pc = "done"
                   /\ g.rv = NoneV
                   /\ g.bodyAt = 0
                   /\ \A h \in Positions("http", g.mark) :
                        trace[h].ep # g.view

\* the public-key request, called without a header, has authenticated once
\* and then run
C1_Witness ==
    /\ Running("gate", "done")
    /\ Top.noauth
    /\ Top.view = "public_key"
    /\ Top.status = IntV(200)
    /\ Top.bodyAt > 0
    /\ Top.rv.t = "resp"
    /\ Cardinality(Positions("authenticate", Top.mark)) = 1

(***************************************************************************)
(* Properties of fetch                                                     *)
(***************************************************************************)
\* the invocations of _fetch_request during the running call
FetchRequests ==
    {i \in 1..Len(trace) : trace[i].ev = "guarded" /\ trace[i].ep = "fetch"}

FetchCalled == call.op = "fetch"

\* every request the call has made was answered 200 with its JSON body
AllAnswered200 == \A i \in 1..Len(answers) : answers[i] = "200"

\* the names of the flags that are true, once the default is applied
TrueFlags ==
    LET flags == DefaultFlags(call.flags, call.fetch_types)
    IN  {k \in 1..4 : flags[k]}

HasUnknownType ==
    \E t \in Elements(call.fetch_types) : t \notin Elements(list_fetch_types)

\* C2: a fetch whose fetch_types holds a string that is not a supported
\* type, whatever the flags, returns None and invokes _fetch_request zero
\* times
C2_UnknownTypeNoRequest ==
    (FetchCalled /\ HasUnknownType) =>
        /\ FetchRequests = {}
        /\ Ended => ret = Returned(NoneV)

\* a fetch with the dl flag and an unknown type has ended after a request
C2_Witness ==
    /\ FetchCalled /\ HasUnknownType
    /\ Ended
    /\ call.flags[1]
    /\ FetchRequests # {}

\* C3: a fetch with an empty fetch_types whose requests (one per true flag)
\* were all answered 200 returns, with one flag true (dl by default), the
\* link of that flag as a string, and with two or more a mapping whose keys
\* are exactly the names of the true flags
C3_FlagResult ==
    (/\ FetchCalled /\ Ended
     /\ call.fetch_types = <<>>
     /\ Len(answers) = Cardinality(TrueFlags)
     /\ AllAnswered200) =>
        /\ ret.k = "ret"
        /\ Cardinality(FetchRequests) = Cardinality(TrueFlags)
        /\ IF Cardinality(TrueFlags) = 1
           THEN \E k \in TrueFlags :
                  ret.v = StrV(FlagValue(FlagNames[k], LinkOf(FlagType[k])))
           ELSE /\ ret.v.t = "dict"
                /\ DOMAIN ret.v.d = {FlagNames[k] : k \in TrueFlags}

\* fetch(dl=True, wms=True) has returned its mapping
C3_Witness ==
    /\ FetchCalled /\ Ended
    /\ call.fetch_types = <<>>
    /\ call.flags = [NoFlags EXCEPT ![1] = TRUE, ![2] = TRUE]
    /\ answers = <<"200", "200">>
    /\ ret.k = "ret"
    /\ ret.v.t = "dict"
    /\ DOMAIN ret.v.d = {"dl", "wms"}

\* C4: a fetch with no flag and a non-empty fetch_types of supported types
\* only, all of whose requests were answered 200, invokes _fetch_request
\* once per listed type and returns the link for a list of one type,
\* otherwise a mapping from each listed type to its link
C4_OneRequestPerType ==
    (/\ FetchCalled /\ Ended
     /\ call.flags = NoFlags
     /\ call.fetch_types # <<>>
     /\ Elements(call.fetch_types) \subseteq Elements(list_fetch_types)
     /\ ret.k = "ret"
     /\ AllAnswered200) =>
        /\ Cardinality(FetchRequests) = Len(call.fetch_types)
        /\ IF Len(call.fetch_types) = 1
           THEN ret.v = StrV(LinkOf(call.fetch_types[1]))
           ELSE /\ ret.v.t = "dict"
                /\ DOMAIN ret.v.d = Elements(call.fetch_types)
                /\ \A t \in Elements(call.fetch_types) :
                     ret.v.d[t] = LinkOf(t)

\* fetch(fetch_types=["wms"]) has returned None without any request
C4_Witness ==
    /\ FetchCalled /\ Ended
    /\ call.flags = NoFlags
    /\ call.fetch_types = <<"wms">>
    /\ ret = Returned(NoneV)
    /\ FetchRequests = {}

(***************************************************************************)
(* Properties of authenticate and the token file                           *)
(***************************************************************************)
\* the file decompresses and decodes to token
FileHolds(token) ==
    /\ tokenFile.exists
    /\ read_token_file(tokenFile.bytes) = [token |-> token, ok |-> TRUE]

\* the statement of C5 as the specification has it: whenever the token
\* file exists, it holds the token of the most recent login answered 200
C5_FileHoldsLastLogin ==
    (tokenFile.exists /\ lastLogin.token # <<>>) =>
        FileHolds(lastLogin.token[1])

\* C5: once a login answered 200 has written the token file, the file exists
\* and holds the token of the most recent such login whose write did not
\* raise PermissionError; a login whose write raises leaves the file as it
\* was
C5_FileHoldsLastWritten ==
    lastLogin.written # <<>> => FileHolds(lastLogin.written[1])

\* two logins with different tokens, the second one's write refused: the
\* file holds the first token
C5_Witness ==
    /\ lastLogin.written # <<>>
    /\ lastLogin.token # lastLogin.written
    /\ FileHolds(lastLogin.written[1])

\* the running call has logged, at position i of the trace, the event ev
\* with outcome out
Logged(i, ev, out) ==
    /\ i \in 1..Len(trace)
    /\ trace[i].ev = ev
    /\ trace[i].out = out

LoginEvents ==
    {i \in 1..Len(trace) :
        \/ trace[i].ev = "get_email_pass"
        \/ trace[i].ev = "http" /\ trace[i].ep = "auth"}

\* the outcomes of a read of the token file that is not a token
ReadFailures == {"PermissionError", "BadGzipFile", "UnicodeDecodeError"}

\* C6: when the auth gate calls authenticate(ignore_temp=False) and the
\* token file is absent, unreadable (permission denied) or corrupt,
\* authenticate does not raise; it goes on to get_email_pass and the auth
\* request
C6_ReadFailureLogsIn ==
    \A i \in 2..Len(trace) :
        (Logged(i - 1, "guarded", "") /\ Logged(i, "authenticate", "use_temp")) =>
            /\ \A exc \in ReadFailures : ret # Raised(exc)
            /\ i < Len(trace) =>
                 \/ trace[i + 1].ev = "get_email_pass"
                 \/ Logged(i + 1, "read_token_file", "ok")
                 \/ /\ trace[i + 1].ev = "read_token_file"
                    /\ i + 1 < Len(trace) => trace[i + 2].ev = "get_email_pass"

\* a guarded request has ended with the exception of a corrupt token file
C6_Witness ==
    /\ call.op = "request"
    /\ Ended
    /\ ret = Raised("BadGzipFile")
    /\ Logged(1, "guarded", "")
    /\ Logged(2, "authenticate", "use_temp")
    /\ Logged(3, "read_token_file", "BadGzipFile")

\* the token file is as a login answered 200 wrote it
WrittenByLogin == \E t \in ServerTokens : tokenFile.bytes = write_token_file(t)

\* authenticate(ignore_temp=False) has read a token from the file
TokenLoaded ==
    \E i \in 1..Len(trace) :
        /\ Logged(i, "authenticate", "use_temp")
        /\ Logged(i + 1, "read_token_file", "ok")

\* C7: with a readable token file written by a login, authenticate(
\* ignore_temp=False) sets the Authorization header to "Bearer " and the
\* written token, returns 200, sends no auth request and asks for no
\* credentials; authenticate(ignore_temp=True) never reads the file and
\* always sends the auth request
C7_TokenFileLogin ==
    /\ (TokenLoaded /\ WrittenByLogin) =>
          /\ \E t \in ServerTokens :
               /\ tokenFile.bytes = write_token_file(t)
               /\ headers = DictSet(EmptyDict, "Authorization", Bearer \o t)
          /\ LoginEvents = {}
          /\ (call.op = "authenticate" /\ Ended) => ret = Returned(IntV(200))
          /\ \A g \in GateFrames :
               (stack[g].noauth /\ GateHasStatus(stack[g])) =>
                   stack[g].status = IntV(200)
    /\ \A i \in 1..Len(trace) :
          Logged(i, "authenticate", "ignore_temp") =>
              /\ \A j \in 1..Len(trace) : trace[j].ev # "read_token_file"
              /\ i < Len(trace) => trace[i + 1].ev = "get_email_pass"
              /\ i + 1 < Len(trace) =>
                   (trace[i + 2].ev = "http" /\ trace[i + 2].ep = "auth")
              /\ Ended => i + 1 < Len(trace)

\* authenticate(ignore_temp=False) has loaded the written token and ended
\* with the exception of a public-key answer that is not JSON
C7_Witness ==
    /\ call.op = "authenticate"
    /\ TokenLoaded /\ WrittenByLogin
    /\ LoginEvents = {}
    /\ Ended
    /\ ret = Raised("JSONDecodeError")

(***************************************************************************)
(* Properties of pixel_pick                                                *)
(***************************************************************************)
PixelPickCalled == call.op = "pixel_pick"

OutOfRange ==
    \/ call.lon < -180 \/ call.lon > 180
    \/ call.lat < -90 \/ call.lat > 90

\* C8: pixel_pick with a longitude outside [-180, 180] or a latitude outside
\* [-90, 90] returns None with no network call made (no authentication, no
\* search, no pixel-pick request) and with the session headers and the token
\* file as they were; with coordinates in range, the boundary values
\* included, it goes on to the search
C8_InvalidCoordinates ==
    /\ [](PixelPickCalled =>
            IF OutOfRange
            THEN Ended /\ ret = Returned(NoneV) /\ trace = <<>>
            ELSE stack # <<>> \/ trace # <<>>)
    /\ [][(PixelPickCalled' /\ ~PixelPickCalled /\ OutOfRange') =>
            UNCHANGED <<headers, tokenFile>>]_vars

\* pixel_pick with longitude 181 and latitude 90 has returned None
C8_Witness ==
    /\ PixelPickCalled
    /\ call.lon = 181 /\ call.lat = 90
    /\ Ended
    /\ ret = Returned(NoneV)
    /\ trace = <<>>

(***************************************************************************)
(* Properties of the retry loop                                            *)
(***************************************************************************)
RetryFrames == {i \in 1..Len(stack) : stack[i].fn = "retry"}

\* how an attempt of the frame f that got an answer from the server ended
GotResponse(f) == f.last \in {"200", "bad200", "error"}

\* the latest attempt of the frame f raised: the request itself, or for the
\* login the reading of the token out of a 200 answer that is not JSON
AttemptRaised(f) ==
    \/ f.last = "raise"
    \/ f.view = "auth" /\ f.last = "bad200"

\* what the call of the frame f returns is what its latest attempt got
ReturnsTheResponse(f) ==
    IF f.view = "auth"
    THEN /\ f.rv.t = "pair"
         /\ IF f.last = "200"
            THEN f.rv.status = 200 /\ f.rv.token.t = "str"
            ELSE f.rv.status # 200 /\ f.rv.token = NoneV
    ELSE f.rv.t = "resp" /\ Outcome(f.rv) = f.last

Authenticated == "Authorization" \in DOMAIN headers

AuthenticateFrames == {i \in 1..Len(stack) : stack[i].fn = "authenticate"}

\* C11: over any sequence of authenticate, search, fetch, pixel_pick,
\* list_styles and download calls the Authorization header, once set, is
\* never removed, and a guarded call made while the header is present never
\* calls authenticate, whatever the statuses of the guarded requests
C11_AuthenticatedStays ==
    /\ [][Authenticated => Authenticated']_vars
    /\ [][(Running("gate", "start") /\ Authenticated) =>
            /\ Cardinality(AuthenticateFrames') = Cardinality(AuthenticateFrames)
            /\ Positions("authenticate", 0)' = Positions("authenticate", 0)]_vars
    /\ [](\A i \in GateFrames :
            (stack[i].pc # "start" /\ ~stack[i].noauth) =>
                Positions("authenticate", stack[i].mark) = {})

\* a guarded request made with the header present has been answered 401,
\* and the header is still there
C11_Witness ==
    /\ Running("gate", "done")
    /\ Len(stack) = 1
    /\ Top.view = "search"
    /\ ~Top.noauth
    /\ Top.rv.t = "resp"
    /\ Top.rv.status = 401
    /\ Authenticated
    /\ Positions("authenticate", Top.mark) = {}

(***************************************************************************)
(* Properties of list_geographies                                          *)
(***************************************************************************)
\* C12: list_geographies returns the whole dictionary PATHS["geography"]
\* when by is None, the list of the type when by is a known geography type,
\* and None when by is an unknown type
C12_ListGeographies ==
    call.op = "list_geographies" =>
        ret = Returned(
                IF call.by = NoneV THEN DictV(GeographyPaths)
                ELSE IF call.by.s \in GeographyTypes
                THEN ListV(GeographyPaths[call.by.s])
                ELSE NoneV)

\* list_geographies() has returned None
C12_Witness ==
    /\ call.op = "list_geographies"
    /\ call.by = NoneV
    /\ Ended
    /\ ret = Returned(NoneV)

(***************************************************************************)
(* Properties of the endpoint methods                                      *)
(***************************************************************************)
GatedMethods == {"search", "fetch", "pixel_pick"}

\* the running method got None from its guarded request while the session
\* has no Authorization header: the gate called authenticate, which
\* returned a status other than 200
AuthenticationFailed ==
    /\ ~Authenticated
    /\ answers # <<>>
    /\ answers[Len(answers)] = "None"

\* C13: when the session has no Authorization header and authenticate
\* returns a status other than 200, search, fetch and pixel_pick (with valid
\* coordinates) end without raising an exception and return None or a
\* failure message
C13_SilentAuthFailure ==
    (call.op \in GatedMethods /\ Ended /\ AuthenticationFailed) =>
        /\ ret.k = "ret"
        /\ ret.v.t \in {"None", "content"}

\* search has ended with the AttributeError of check(None) after a failed
\* authentication
C13_Witness ==
    /\ call.op = "search"
    /\ Ended
    /\ AuthenticationFailed
    /\ \E i \in 1..Len(trace) : trace[i].ev = "http" /\ trace[i].ep = "auth"
    /\ ret = Raised("AttributeError")

\* the pixel-pick requests of the running call
PixelRequests ==
    {i \in 1..Len(trace) : trace[i].ev = "http" /\ trace[i].ep = "pixel_pick"}

\* the search that pixel_pick makes first was answered with status 200
SearchWas200 == answers # <<>> /\ answers[1] \in {"200", "bad200"}

\* C14: pixel_pick with coordinates in range sends the pixel-pick request
\* only after its search for the asset id was answered 200; it returns a
\* pixel value only if the search and the pixel-pick request were both
\* answered 200, and returns None when the search or the pixel-pick request
\* was answered with another status
C14_PixelPick ==
    (PixelPickCalled /\ ~OutOfRange) =>
        /\ PixelRequests # {} => SearchWas200
        /\ (Ended /\ ret.k = "ret" /\ ret.v.t = "str") =>
              /\ SearchWas200
              /\ \E i \in PixelRequests : trace[i].out = "200"
        /\ (Ended /\ answers # <<>> /\ answers[1] = "error") =>
              ret = Returned(NoneV)
        /\ (Ended /\ \E i \in PixelRequests : trace[i].out = "error") =>
              ret = Returned(NoneV)

\* pixel_pick has ended with an exception after a pixel-pick request
\* answered with a status other than 200
C14_Witness ==
    /\ PixelPickCalled /\ ~OutOfRange
    /\ Ended
    /\ answers = <<"200">>
    /\ \E i \in PixelRequests : trace[i].out = "error"
    /\ ret = Raised("KeyError")

(***************************************************************************)
(* Properties of the requests' Authorization header                        *)
(***************************************************************************)
GuardedEndpoints == {"search", "fetch", "public_key"}

\* the next step of the program is a request to the search, fetch,
\* public_key or pixel_pick endpoint
RequestDue ==
    \/ Running("retry", "attempt") /\ Top.view \in GuardedEndpoints
    \/ Running("pixel_pick", "pick")

\* "Bearer <token>" with a non-empty token free of whitespace
WellFormedBearer(value) ==
    /\ StartsWith(value, Bearer)
    /\ NonSpace(DropFirst(value, Len(Bearer)))

\* C15: whatever the token file holds, every request to the search, fetch,
\* pixel_pick or public_key endpoint is made while the session has an
\* Authorization header of the shape "Bearer <token>" with a non-empty
\* token free of whitespace, the pixel-pick request included
C15_RequestsCarryBearer ==
    RequestDue =>
        /\ Authenticated
        /\ WellFormedBearer(headers["Authorization"])

\* the public-key request is due while the header holds the token of the
\* file with its final newline
C15_Witness ==
    /\ Running("retry", "attempt")
    /\ Top.view = "public_key"
    /\ Authenticated
    /\ headers["Authorization"] = Bearer \o <<"a", "\n">>

====
